---- MODULE Spec2Model ----
(***************************************************************************)
(* Model of stm32-delay (src/src/lib.rs): the TimerExt implementation for  *)
(* TIM1 (enable, disable, calc_pre, delay) and the TimerDelay controller   *)
(* (init, free, delay_ms / delay_us for u8, u16 and u32).                  *)
(*                                                                         *)
(* Every register access of the source is one step, so that the order of   *)
(* the accesses and their interleaving with the hardware and with other    *)
(* users of the shared RCC registers is visible.                           *)
(*                                                                         *)
(* Numbers are kept below 2^31 (TLC's integers): the clock configurations  *)
(* and the requests are chosen so that no u32 operation of the source      *)
(* wraps; the casts to u16 are modelled as reductions modulo 0x10000.      *)
(***************************************************************************)
EXTENDS Integers, Sequences, FiniteSets, TLC

\* ------------------------------------------------------------------------
\* Bounds and inputs

\* The u32 requests are k * 0xFFFF + r for k in 0..MaxChunks.
MaxChunks == 2

\* 0xffff, the largest value of the 16-bit counter (lib.rs:141).
MaxCounter == 65535

\* 0x10000: the modulus of `& 0xffff` / `as u16`, the divisor of `>> 16`.
PscModulus == 65536

\* Index of TIM1's bit in RCC.APB2ENR and RCC.APB2RSTR (lib.rs:43).
TimBit == 0

\* Bits of the same RCC registers that belong to other peripherals.
OtherBits == {1}

\* Clock configurations (Clocks::pclk2(), Clocks::ppre2()).
ClockConfigs ==
    { [pclk2 |-> 84000000, ppre2 |-> 1],
      [pclk2 |-> 48000001, ppre2 |-> 1],
      [pclk2 |-> 32768000, ppre2 |-> 2] }

Remainders == {0, 1, 4465}

Requests8 == {0, 255}

Requests16 == {0, 300, MaxCounter}

Requests32 == { k * MaxCounter + r : k \in 0..MaxChunks, r \in Remainders }

Requests(width) ==
    IF width = 8 THEN Requests8
    ELSE IF width = 16 THEN Requests16
    ELSE Requests32

Units == {"ms", "us"}

Widths == {8, 16, 32}

NoHandle == "none"

TIM1 == "TIM1"

NoClocks == [pclk2 |-> 0, ppre2 |-> 0]

NoCtl == [live |-> FALSE, t |-> NoHandle, us_pre |-> 0, ms_pre |-> 0]

NoCall == [unit |-> "none", width |-> 0, n |-> 0, rem |-> 0]

NoFrame == [prescaler |-> 0, time |-> 0, repetitions |-> 0, i |-> 0,
            last |-> FALSE]

ResetTim == [dir |-> FALSE, cen |-> FALSE, psc |-> 0, cnt |-> 0,
             uif |-> FALSE, done |-> FALSE]

\* ------------------------------------------------------------------------
\* State

VARIABLES
    clocks,     \* the clock tree's current configuration (external)
    rcc,        \* [apb2enr, apb2rstr]: sets of the bits that are set
    tim,        \* TIM1's registers: [dir, cen, psc, cnt, uif], and done:
                \* the counter has reached zero since it was last loaded
    handle,     \* the peripheral handle the caller holds, or NoHandle
    ctl,        \* the TimerDelay value: [live, t, us_pre, ms_pre]
    returned,   \* the value the last free() returned, NoHandle before
    pc,         \* position of the operation in progress, "idle" if none
    initArg,    \* init's arguments: [t, clocks]
    call,       \* delay_ms / delay_us in progress: [unit, width, n, rem]
    frame,      \* TimerExt::delay's locals
    passed,     \* history: what the last init() was given: [t, clocks]
    issued,     \* history: <<prescaler, time>> of each delay() of the call
    ops,        \* history: register operations of the adapter operation
    ticks,      \* history: counter ticks in the current delay()
    callTicks   \* history: counter ticks in the current call

vars == <<clocks, rcc, tim, handle, ctl, returned, pc, initArg, call, frame,
          passed, issued, ops, ticks, callTicks>>

hw == <<rcc, tim>>

ghost == <<passed, issued, ops, ticks, callTicks>>

Init ==
    /\ clocks \in ClockConfigs
    /\ rcc = [apb2enr |-> {}, apb2rstr |-> {}]
    /\ tim = ResetTim
    /\ handle = TIM1
    /\ ctl = NoCtl
    /\ returned = NoHandle
    /\ pc = "idle"
    /\ initArg = [t |-> NoHandle, clocks |-> NoClocks]
    /\ call = NoCall
    /\ frame = NoFrame
    /\ passed = [t |-> NoHandle, clocks |-> NoClocks]
    /\ issued = <<>>
    /\ ops = <<>>
    /\ ticks = 0
    /\ callTicks = 0

\* ------------------------------------------------------------------------
\* TimerExt for TIM1: calc_pre (lib.rs:58-66)

\* let pclk_mul = if clocks.ppre2() == 1 { 1 } else { 2 };
pclk_mul(c) == IF c.ppre2 = 1 THEN 1 ELSE 2

\* let freq_in = clocks.pclk2().0 * pclk_mul;
freq_in(c) == c.pclk2 * pclk_mul(c)

\* Mutant of us_pre_of: the division rounds down.
us_pre_floor(c) == freq_in(c) \div 1000000

\* let us_pre = (freq_in + 999999) / 1000000;
us_pre_of(c) == (freq_in(c) + 999999) \div 1000000

\* let ms_pre = (freq_in + 999) / 1000;
ms_pre_of(c) == (freq_in(c) + 999) \div 1000

\* (us_pre, ms_pre)
calc_pre(c) == <<us_pre_of(c), ms_pre_of(c)>>

\* ------------------------------------------------------------------------
\* TimerExt for TIM1: delay's local computations (lib.rs:71-72)

\* Mutant of repetitions_of: the "+ 1" is forgotten.
repetitions_no_plus_one(prescaler) == prescaler \div PscModulus

\* let repetitions = (prescaler >> 16) + 1;
repetitions_of(prescaler) == (prescaler \div PscModulus) + 1

\* let prescaler = (prescaler & 0xffff) as u16;
psc_bits(prescaler) == prescaler % PscModulus

\* Mutant of as_u16: the cast is to u8.
as_u8(x) == x % 256

\* `x as u16`
as_u16(x) == x % PscModulus

\* for _ in 0..repetitions: is there another iteration?
for_continues(f) == f.i < f.repetitions

\* ------------------------------------------------------------------------
\* TimerDelay: the pieces of delay_ms / delay_us

\* Mutant of cached_pre: the two cached prescalers are swapped.
cached_pre_swapped(unit) == IF unit = "ms" THEN ctl.us_pre ELSE ctl.ms_pre

\* Mutant of cached_pre: the prescaler is recomputed from the current clocks.
cached_pre_recomputed(unit) ==
    IF unit = "ms" THEN ms_pre_of(clocks) ELSE us_pre_of(clocks)

\* self.ms_pre in delay_ms, self.us_pre in delay_us
cached_pre(unit) == IF unit = "ms" THEN ctl.ms_pre ELSE ctl.us_pre

\* Mutant of loop_continues: the comparison is off by one.
loop_continues_ge(rem) == rem >= MaxCounter

\* while ms > 0xffff
loop_continues(rem) == rem > MaxCounter

\* ms -= 0xffff
loop_subtract(rem) == rem - MaxCounter

\* ------------------------------------------------------------------------
\* Register accesses

\* Mutant of bb_set: the whole register is written with only the bit set.
bb_set_whole(reg, bit) == {bit}

\* bb::set(&reg, bit): atomic set of one bit
bb_set(reg, bit) == reg \cup {bit}

\* bb::clear(&reg, bit): atomic clear of one bit
bb_clear(reg, bit) == reg \ {bit}

\* Asserting TIM1's bit in APB2RSTR puts TIM1's registers in their reset state.
tim_after_rstr(t, rstr) == IF TimBit \in rstr THEN ResetTim ELSE t

Log(name, val) == Append(ops, <<name, val>>)

\* ------------------------------------------------------------------------
\* TimerDelay::init (lib.rs:98-104) with TimerExt::enable (lib.rs:40-48)

\* The caller moves the peripheral and the current Clocks into init.
init_call ==
    /\ pc = "idle"
    /\ handle # NoHandle
    /\ ~ctl.live
    /\ initArg' = [t |-> handle, clocks |-> clocks]
    /\ passed' = [t |-> handle, clocks |-> clocks]
    /\ handle' = NoHandle
    /\ returned' = NoHandle
    /\ ops' = <<>>
    /\ pc' = "enable_enr"
    /\ UNCHANGED <<clocks, rcc, tim, ctl, call, frame, issued, ticks,
                   callTicks>>

\* bb::set(&rcc.apb2enr, 0);
enable_set_enr ==
    /\ pc = "enable_enr"
    /\ rcc' = [rcc EXCEPT !.apb2enr = bb_set(@, TimBit)]
    /\ ops' = Log("apb2enr.set", TimBit)
    /\ pc' = "enable_rst_set"
    /\ UNCHANGED <<clocks, tim, handle, ctl, returned, initArg, call, frame,
                   passed, issued, ticks, callTicks>>

\* bb::set(&rcc.apb2rstr, 0);
enable_set_rstr ==
    /\ pc = "enable_rst_set"
    /\ rcc' = [rcc EXCEPT !.apb2rstr = bb_set(@, TimBit)]
    /\ tim' = tim_after_rstr(tim, rcc'.apb2rstr)
    /\ ops' = Log("apb2rstr.set", TimBit)
    /\ pc' = "enable_rst_clear"
    /\ UNCHANGED <<clocks, handle, ctl, returned, initArg, call, frame,
                   passed, issued, ticks, callTicks>>

\* bb::clear(&rcc.apb2rstr, 0);
enable_clear_rstr ==
    /\ pc = "enable_rst_clear"
    /\ rcc' = [rcc EXCEPT !.apb2rstr = bb_clear(@, TimBit)]
    /\ ops' = Log("apb2rstr.clear", TimBit)
    /\ pc' = "enable_dir"
    /\ UNCHANGED <<clocks, tim, handle, ctl, returned, initArg, call, frame,
                   passed, issued, ticks, callTicks>>

\* Mutant of enable_set_dir: the direction bit is not set.
enable_dir_forgotten ==
    /\ pc = "enable_dir"
    /\ ops' = Log("cr1.dir.set", 1)
    /\ pc' = "init_calc"
    /\ UNCHANGED <<clocks, rcc, tim, handle, ctl, returned, initArg, call,
                   frame, passed, issued, ticks, callTicks>>

\* self.cr1.modify(|_, w| w.dir().set_bit());
enable_set_dir ==
    /\ pc = "enable_dir"
    /\ tim' = [tim EXCEPT !.dir = TRUE]
    /\ ops' = Log("cr1.dir.set", 1)
    /\ pc' = "init_calc"
    /\ UNCHANGED <<clocks, rcc, handle, ctl, returned, initArg, call, frame,
                   passed, issued, ticks, callTicks>>

\* let (us_pre, ms_pre) = T::calc_pre(clocks); TimerDelay { t, us_pre, ms_pre }
init_return ==
    /\ pc = "init_calc"
    /\ ctl' = [live |-> TRUE, t |-> initArg.t,
               us_pre |-> calc_pre(initArg.clocks)[1],
               ms_pre |-> calc_pre(initArg.clocks)[2]]
    /\ initArg' = [t |-> NoHandle, clocks |-> NoClocks]
    /\ pc' = "idle"
    /\ UNCHANGED <<clocks, rcc, tim, handle, returned, call, frame, passed,
                   issued, ops, ticks, callTicks>>

\* ------------------------------------------------------------------------
\* TimerDelay::free (lib.rs:106-111) with TimerExt::disable (lib.rs:50-56)

free_call ==
    /\ pc = "idle"
    /\ ctl.live
    /\ ops' = <<>>
    /\ call' = NoCall
    /\ frame' = NoFrame
    /\ issued' = <<>>
    /\ ticks' = 0
    /\ callTicks' = 0
    /\ pc' = "disable_rst_set"
    /\ UNCHANGED <<clocks, rcc, tim, handle, ctl, returned, initArg, passed>>

\* bb::set(&rcc.apb2rstr, 0);
disable_set_rstr ==
    /\ pc = "disable_rst_set"
    /\ rcc' = [rcc EXCEPT !.apb2rstr = bb_set(@, TimBit)]
    /\ tim' = tim_after_rstr(tim, rcc'.apb2rstr)
    /\ ops' = Log("apb2rstr.set", TimBit)
    /\ pc' = "disable_rst_clear"
    /\ UNCHANGED <<clocks, handle, ctl, returned, initArg, call, frame,
                   passed, issued, ticks, callTicks>>

\* Mutant of disable_clear_rstr: the reset bit is left asserted.
disable_keep_rstr ==
    /\ pc = "disable_rst_clear"
    /\ ops' = Log("apb2rstr.clear", TimBit)
    /\ pc' = "disable_enr"
    /\ UNCHANGED <<clocks, rcc, tim, handle, ctl, returned, initArg, call,
                   frame, passed, issued, ticks, callTicks>>

\* bb::clear(&rcc.apb2rstr, 0);
disable_clear_rstr ==
    /\ pc = "disable_rst_clear"
    /\ rcc' = [rcc EXCEPT !.apb2rstr = bb_clear(@, TimBit)]
    /\ ops' = Log("apb2rstr.clear", TimBit)
    /\ pc' = "disable_enr"
    /\ UNCHANGED <<clocks, tim, handle, ctl, returned, initArg, call, frame,
                   passed, issued, ticks, callTicks>>

\* Mutant of disable_clear_enr: the clock is left on.
disable_enr_forgotten ==
    /\ pc = "disable_enr"
    /\ ops' = Log("apb2enr.clear", TimBit)
    /\ pc' = "free_ret"
    /\ UNCHANGED <<clocks, rcc, tim, handle, ctl, returned, initArg, call,
                   frame, passed, issued, ticks, callTicks>>

\* bb::clear(&rcc.apb2enr, 0);
disable_clear_enr ==
    /\ pc = "disable_enr"
    /\ rcc' = [rcc EXCEPT !.apb2enr = bb_clear(@, TimBit)]
    /\ ops' = Log("apb2enr.clear", TimBit)
    /\ pc' = "free_ret"
    /\ UNCHANGED <<clocks, tim, handle, ctl, returned, initArg, call, frame,
                   passed, issued, ticks, callTicks>>

\* Mutant of free_result: free() hands back no peripheral.
free_result_none == NoHandle

\* The peripheral free() hands back: self.t
free_result == ctl.t

\* self.t (the controller is consumed)
free_return ==
    /\ pc = "free_ret"
    /\ returned' = free_result
    /\ handle' = free_result
    /\ ctl' = NoCtl
    /\ pc' = "idle"
    /\ UNCHANGED <<clocks, rcc, tim, initArg, call, frame, passed, issued,
                   ops, ticks, callTicks>>

\* ------------------------------------------------------------------------
\* DelayMs / DelayUs for TimerDelay (lib.rs:114-190)

\* The caller invokes delay_ms(n) or delay_us(n) with n of the given width.
delay_call(unit, width, n) ==
    /\ pc = "idle"
    /\ ctl.live
    /\ call' = [unit |-> unit, width |-> width, n |-> n, rem |-> n]
    /\ frame' = NoFrame
    /\ issued' = <<>>
    /\ ops' = <<>>
    /\ ticks' = 0
    /\ callTicks' = 0
    /\ pc' = IF width = 32 THEN "loop" ELSE "single"
    /\ UNCHANGED <<clocks, rcc, tim, handle, ctl, returned, initArg, passed>>

\* The call self.t.delay(prescaler, time): enter TimerExt::delay.
enter_delay(prescaler, time, last) ==
    /\ frame' = [prescaler |-> prescaler, time |-> time, repetitions |-> 0,
                 i |-> 0, last |-> last]
    /\ issued' = Append(issued, <<prescaler, time>>)
    /\ pc' = "delay_entry"

\* u8 / u16: self.t.delay(self.ms_pre, ms as u16);
delay_single ==
    /\ pc = "single"
    /\ enter_delay(cached_pre(call.unit), as_u16(call.rem), TRUE)
    /\ UNCHANGED <<clocks, rcc, tim, handle, ctl, returned, initArg, call,
                   passed, ops, ticks, callTicks>>

\* u32: while ms > 0xffff { self.t.delay(self.ms_pre, 0xffff); ...
delay_loop_body ==
    /\ pc = "loop"
    /\ loop_continues(call.rem)
    /\ enter_delay(cached_pre(call.unit), MaxCounter, FALSE)
    /\ UNCHANGED <<clocks, rcc, tim, handle, ctl, returned, initArg, call,
                   passed, ops, ticks, callTicks>>

\* u32: ... ms -= 0xffff; }
delay_loop_sub ==
    /\ pc = "loop_sub"
    /\ call' = [call EXCEPT !.rem = loop_subtract(@)]
    /\ pc' = "loop"
    /\ UNCHANGED <<clocks, rcc, tim, handle, ctl, returned, initArg, frame,
                   passed, issued, ops, ticks, callTicks>>

\* u32, after the loop: self.t.delay(self.ms_pre, ms as u16);
delay_loop_final ==
    /\ pc = "loop"
    /\ ~loop_continues(call.rem)
    /\ enter_delay(cached_pre(call.unit), as_u16(call.rem), TRUE)
    /\ UNCHANGED <<clocks, rcc, tim, handle, ctl, returned, initArg, call,
                   passed, ops, ticks, callTicks>>

\* delay_ms / delay_us returns.
delay_return ==
    /\ pc = "ret"
    /\ pc' = "idle"
    /\ UNCHANGED <<clocks, rcc, tim, handle, ctl, returned, initArg, call,
                   frame, passed, issued, ops, ticks, callTicks>>

\* ------------------------------------------------------------------------
\* TimerExt::delay for TIM1 (lib.rs:68-85)

\* let repetitions = ...; let prescaler = ...; self.psc.write(...);
delay_write_psc ==
    /\ pc = "delay_entry"
    /\ frame' = [frame EXCEPT !.repetitions = repetitions_of(frame.prescaler),
                              !.i = 0]
    /\ tim' = [tim EXCEPT !.psc = psc_bits(frame.prescaler)]
    /\ ops' = <<<<"psc.write", psc_bits(frame.prescaler)>>>>
    /\ ticks' = 0
    /\ pc' = "for"
    /\ UNCHANGED <<clocks, rcc, handle, ctl, returned, initArg, call, passed,
                   issued, callTicks>>

\* for _ in 0..repetitions { : the next iteration starts
delay_for_next ==
    /\ pc = "for"
    /\ for_continues(frame)
    /\ frame' = [frame EXCEPT !.i = @ + 1]
    /\ pc' = "clear_uif"
    /\ UNCHANGED <<clocks, rcc, tim, handle, ctl, returned, initArg, call,
                   passed, issued, ops, ticks, callTicks>>

\* for _ in 0..repetitions { : the range is exhausted, delay() returns
delay_for_exit ==
    /\ pc = "for"
    /\ ~for_continues(frame)
    /\ pc' = IF frame.last THEN "ret" ELSE "loop_sub"
    /\ UNCHANGED <<clocks, rcc, tim, handle, ctl, returned, initArg, call,
                   frame, passed, issued, ops, ticks, callTicks>>

\* The write the source's comment describes: it clears the update flag.
sr_write_uif_clears(t) == [t EXCEPT !.uif = FALSE]

\* // Clear the update flag.
\* self.sr.write(|w| w.uif().set_bit());
\* The write stores 1 in UIF and 0 in every other flag of TIM1's SR.  The
\* flags of SR are cleared by writing 0; writing 1 has no effect on them.
\* UIF, the only flag of SR in the model, is left as it was.
sr_write_uif(t) == t

delay_clear_uif ==
    /\ pc = "clear_uif"
    /\ tim' = sr_write_uif(tim)
    /\ ops' = Log("sr.write.uif", 1)
    /\ pc' = "load_cnt"
    /\ UNCHANGED <<clocks, rcc, handle, ctl, returned, initArg, call, frame,
                   passed, issued, ticks, callTicks>>

\* self.cnt.write(|w| unsafe { w.cnt().bits(time) });
delay_load_cnt ==
    /\ pc = "load_cnt"
    /\ tim' = [tim EXCEPT !.cnt = frame.time, !.done = FALSE]
    /\ ops' = Log("cnt.write", frame.time)
    /\ pc' = "start"
    /\ UNCHANGED <<clocks, rcc, handle, ctl, returned, initArg, call, frame,
                   passed, issued, ticks, callTicks>>

\* self.cr1.modify(|_, w| w.cen().set_bit());
delay_start ==
    /\ pc = "start"
    /\ tim' = [tim EXCEPT !.cen = TRUE]
    /\ ops' = Log("cr1.cen.set", 1)
    /\ pc' = "poll"
    /\ UNCHANGED <<clocks, rcc, handle, ctl, returned, initArg, call, frame,
                   passed, issued, ticks, callTicks>>

\* Mutant of poll_exits: the test of the flag is inverted.
poll_exits_inverted(t) == ~t.uif

\* while !self.sr.read().uif().bit_is_set() {} : is the busy-wait over?
poll_exits(t) == t.uif

\* while !self.sr.read().uif().bit_is_set() {}
delay_poll ==
    /\ pc = "poll"
    /\ IF poll_exits(tim)
       THEN /\ ops' = Log("sr.uif.seen", 1)
            /\ pc' = "stop"
            /\ UNCHANGED <<clocks, rcc, tim, handle, ctl, returned, initArg,
                           call, frame, passed, issued, ticks, callTicks>>
       ELSE UNCHANGED vars

\* Mutant of delay_stop: the counter is left running.
delay_stop_forgotten ==
    /\ pc = "stop"
    /\ ops' = Log("cr1.cen.clear", 0)
    /\ pc' = "for"
    /\ UNCHANGED <<clocks, rcc, tim, handle, ctl, returned, initArg, call,
                   frame, passed, issued, ticks, callTicks>>

\* self.cr1.modify(|_, w| w.cen().clear_bit());
delay_stop ==
    /\ pc = "stop"
    /\ tim' = [tim EXCEPT !.cen = FALSE]
    /\ ops' = Log("cr1.cen.clear", 0)
    /\ pc' = "for"
    /\ UNCHANGED <<clocks, rcc, handle, ctl, returned, initArg, call, frame,
                   passed, issued, ticks, callTicks>>

\* ------------------------------------------------------------------------
\* The environment

\* The running counter counts the loaded value down to zero and raises the
\* update flag ("Wait until the counter has reached zero", lib.rs:80).
hw_expire ==
    /\ tim.cen
    /\ ~tim.done
    /\ TimBit \in rcc.apb2enr
    /\ TimBit \notin rcc.apb2rstr
    /\ tim' = [tim EXCEPT !.uif = TRUE, !.cnt = 0, !.done = TRUE]
    /\ ticks' = ticks + tim.cnt
    /\ callTicks' = callTicks + tim.cnt
    /\ UNCHANGED <<clocks, rcc, handle, ctl, returned, pc, initArg, call,
                   frame, passed, issued, ops>>

\* The clock tree is reconfigured behind the controller's back.
clock_change ==
    /\ \E c \in ClockConfigs \ {clocks} : clocks' = c
    /\ UNCHANGED <<rcc, tim, handle, ctl, returned, pc, initArg, call, frame,
                   passed, issued, ops, ticks, callTicks>>

\* Another peripheral's driver sets or clears its own bit of APB2ENR.
other_agent_enr ==
    /\ \E b \in OtherBits :
          rcc' = [rcc EXCEPT !.apb2enr =
                     IF b \in @ THEN bb_clear(@, b) ELSE bb_set(@, b)]
    /\ UNCHANGED <<clocks, tim, handle, ctl, returned, pc, initArg, call,
                   frame, passed, issued, ops, ticks, callTicks>>

\* Another peripheral's driver sets or clears its own bit of APB2RSTR.
other_agent_rstr ==
    /\ \E b \in OtherBits :
          rcc' = [rcc EXCEPT !.apb2rstr =
                     IF b \in @ THEN bb_clear(@, b) ELSE bb_set(@, b)]
    /\ UNCHANGED <<clocks, tim, handle, ctl, returned, pc, initArg, call,
                   frame, passed, issued, ops, ticks, callTicks>>

\* ------------------------------------------------------------------------
\* Specifications

\* The steps the processor takes inside an operation it has entered.
Program ==
    \/ enable_set_enr \/ enable_set_rstr \/ enable_clear_rstr
    \/ enable_set_dir \/ init_return
    \/ disable_set_rstr \/ disable_clear_rstr \/ disable_clear_enr
    \/ free_return
    \/ delay_single \/ delay_loop_body \/ delay_loop_sub \/ delay_loop_final
    \/ delay_return
    \/ delay_write_psc \/ delay_for_next \/ delay_for_exit
    \/ delay_clear_uif \/ delay_load_cnt \/ delay_start \/ delay_poll
    \/ delay_stop

Next ==
    \/ init_call
    \/ enable_set_enr
    \/ enable_set_rstr
    \/ enable_clear_rstr
    \/ enable_set_dir
    \/ init_return
    \/ free_call
    \/ disable_set_rstr
    \/ disable_clear_rstr
    \/ disable_clear_enr
    \/ free_return
    \/ \E unit \in Units, width \in Widths :
          \E n \in Requests(width) : delay_call(unit, width, n)
    \/ delay_single
    \/ delay_loop_body
    \/ delay_loop_sub
    \/ delay_loop_final
    \/ delay_return
    \/ delay_write_psc
    \/ delay_for_next
    \/ delay_for_exit
    \/ delay_clear_uif
    \/ delay_load_cnt
    \/ delay_start
    \/ delay_poll
    \/ delay_stop
    \/ hw_expire
    \/ clock_change
    \/ other_agent_enr
    \/ other_agent_rstr

Spec == Init /\ [][Next]_vars

\* The processor keeps executing the operation it is in, and every countdown
\* that was started expires.
FairSpec == Spec /\ WF_vars(Program) /\ WF_vars(hw_expire)

\* ========================================================================
\* Properties

\* A delay_ms / delay_us call has done all its work and is about to return.
AtReturn == pc = "ret"

\* The prescaler the controller holds for a unit.
PreOf(unit) == IF unit = "ms" THEN ctl.ms_pre ELSE ctl.us_pre

\* q is the ceiling of a / b.
IsCeil(q, a, b) == q * b >= a /\ (q - 1) * b < a

\* freq_in as the claim defines it.
ClaimFreqIn(c) == c.pclk2 * (IF c.ppre2 = 1 THEN 1 ELSE 2)

\* C2: the prescaler pair init caches is (ceil(freq_in / 1000000),
\* ceil(freq_in / 1000)) with freq_in = pclk2 when ppre2 = 1 and 2 * pclk2
\* otherwise; 84 MHz at multiplier 1 gives (84, 84000), freq_in = 48000001
\* gives us_prescaler = 49, and an exact multiple of 1 MHz divides exactly.
C2_CalcPre ==
    (pc = "idle" /\ ctl.live) =>
        LET F == ClaimFreqIn(passed.clocks) IN
        /\ IsCeil(ctl.us_pre, F, 1000000)
        /\ IsCeil(ctl.ms_pre, F, 1000)
        /\ (passed.clocks = [pclk2 |-> 84000000, ppre2 |-> 1]
              => ctl.us_pre = 84 /\ ctl.ms_pre = 84000)
        /\ (F = 48000001 => ctl.us_pre = 49)
        /\ (F % 1000000 = 0 => ctl.us_pre * 1000000 = F)

C2_Witness ==
    /\ pc = "idle"
    /\ ctl.live
    /\ passed.clocks.pclk2 = 48000001
    /\ ctl.us_pre = 49
    /\ ctl.ms_pre = 48001

\* The number of bounded delays the claim gives for a 32-bit request.
C3_Count(n) == IF n = 0 THEN 1 ELSE (n + MaxCounter - 1) \div MaxCounter

\* The bounded delays the claim gives for a 32-bit request: 0xFFFF while
\* more than 0xFFFF remains, then the remaining value.
C3_Expected(unit, n) ==
    [j \in 1..C3_Count(n) |->
        <<PreOf(unit),
          IF j < C3_Count(n) THEN MaxCounter
          ELSE n - (C3_Count(n) - 1) * MaxCounter>>]

RECURSIVE SumTimes(_)
SumTimes(s) == IF s = <<>> THEN 0 ELSE Head(s)[2] + SumTimes(Tail(s))

\* C3: a 32-bit delay_ms(n) / delay_us(n) issues 0xFFFF while the remaining
\* value is above 0xFFFF and then the remaining value; the durations sum to
\* n, there are ceil(n / 0xFFFF) bounded delays (1 for n = 0), each with the
\* unit's cached prescaler; delay_ms(70000) issues 65535 then 4465.
C3_Decomposition ==
    (AtReturn /\ call.width = 32) =>
        /\ issued = C3_Expected(call.unit, call.n)
        /\ SumTimes(issued) = call.n
        /\ Len(issued) = C3_Count(call.n)
        /\ (call.n = 70000 /\ call.unit = "ms"
              => issued = <<<<ctl.ms_pre, 65535>>, <<ctl.ms_pre, 4465>>>>)

C3_Witness ==
    /\ AtReturn
    /\ call.width = 32
    /\ call.unit = "ms"
    /\ call.n = 70000
    /\ Len(issued) = 2

\* C4: an 8-bit or 16-bit delay_ms(n) / delay_us(n) issues exactly one
\* bounded delay, with the unit's cached prescaler and duration n.
C4_SingleDelay ==
    (AtReturn /\ call.width \in {8, 16}) =>
        issued = <<<<PreOf(call.unit), call.n>>>>

C4_Witness ==
    /\ AtReturn
    /\ call.width = 16
    /\ call.unit = "us"
    /\ call.n = MaxCounter
    /\ issued = <<<<ctl.us_pre, MaxCounter>>>>

\* a / b >= c / d for naturals a, c and positive b, d, without forming the
\* products (they exceed the range of the model checker's integers).
RECURSIVE FracGE(_, _, _, _)
FracGE(a, b, c, d) ==
    IF a \div b # c \div d THEN a \div b > c \div d
    ELSE IF c % d = 0 THEN TRUE
    ELSE IF a % b = 0 THEN FALSE
    ELSE FracGE(d, c % d, b, a % b)

\* Units of the requested time in one second.
PerSecond(unit) == IF unit = "ms" THEN 1000 ELSE 1000000

\* The division ratio a prescaler register value programs.  The timer
\* divides by the register value plus one; reading the register value itself
\* as the ratio only makes the delivered time smaller.
Ratio(psc) == psc + 1

\* The counter ticks of the call, at the programmed ratio, cover n units of
\* the requested time: callTicks * Ratio(psc) >= n * freq_in / PerSecond.
Covers(unit, n) ==
    FracGE(callTicks, n,
           ClaimFreqIn(passed.clocks), PerSecond(unit) * Ratio(tim.psc))

\* C1: a call is never shorter than requested: the counter ticks of all
\* its countdowns, times the division ratio programmed into the prescaler
\* register, are at least n * freq_in / 1000 (delay_ms) or
\* n * freq_in / 1000000 (delay_us) input-clock cycles, also when the cached
\* prescaler is above 0xFFFF and is split into repetitions.
C1_NeverShorter ==
    (AtReturn /\ call.n > 0) => Covers(call.unit, call.n)

\* The controller has been consumed by free() and no init() has followed.
Freed == pc = "idle" /\ ~ctl.live /\ passed.t # NoHandle

\* C6: free() after init() returns the peripheral init() was given, after
\* setting and clearing the reset bit and then clearing the clock-enable
\* bit, in this order; the clock-enable bit is clear when free() returns.
C6_FreeRoundTrip ==
    /\ Freed =>
          /\ returned = passed.t
          /\ handle = passed.t
          /\ ops = <<<<"apb2rstr.set", TimBit>>, <<"apb2rstr.clear", TimBit>>,
                     <<"apb2enr.clear", TimBit>>>>
          /\ TimBit \notin rcc.apb2enr
    /\ pc = "free_ret" => TimBit \notin rcc.apb2enr

C6_Witness ==
    /\ Freed
    /\ returned = TIM1
    /\ handle = TIM1

\* C7 as stated: after free() the clock-enable bit is clear and the reset
\* bit is still asserted.
C7_HeldInReset ==
    Freed => (TimBit \notin rcc.apb2enr /\ TimBit \in rcc.apb2rstr)

\* C7 as amended: after free() the clock-enable bit is clear and the reset
\* bit is clear again: free() pulsed it (set, then cleared), which left the
\* timer's registers in their reset state.
C7_ResetPulsed ==
    Freed =>
        /\ TimBit \notin rcc.apb2enr
        /\ TimBit \notin rcc.apb2rstr
        /\ Len(ops) >= 2
        /\ ops[1] = <<"apb2rstr.set", TimBit>>
        /\ ops[2] = <<"apb2rstr.clear", TimBit>>
        /\ tim = ResetTim

C7_Witness ==
    /\ Freed
    /\ TimBit \notin rcc.apb2rstr
    /\ TimBit \notin rcc.apb2enr
    /\ Len(ops) = 3

\* The number of entries of the operation log with the given name.
RECURSIVE CountOps(_, _)
CountOps(s, name) ==
    IF s = <<>> THEN 0
    ELSE (IF Head(s)[1] = name THEN 1 ELSE 0) + CountOps(Tail(s), name)

\* C8: the cached prescaler pair is the one computed in init from the
\* clocks init was given and never changes while the controller lives, also
\* when the clock configuration changes afterwards; every bounded delay of
\* delay_ms carries that ms prescaler, every one of delay_us that us
\* prescaler.
C8_ComputedOnce ==
    /\ [](ctl.live =>
            /\ ctl.us_pre = us_pre_of(passed.clocks)
            /\ ctl.ms_pre = ms_pre_of(passed.clocks)
            /\ \A j \in 1..Len(issued) :
                  issued[j][1] = IF call.unit = "ms"
                                 THEN ms_pre_of(passed.clocks)
                                 ELSE us_pre_of(passed.clocks))
    /\ [][(ctl.live /\ ctl'.live) =>
             (ctl'.us_pre = ctl.us_pre /\ ctl'.ms_pre = ctl.ms_pre)]_vars

C8_Witness ==
    /\ AtReturn
    /\ clocks # passed.clocks
    /\ calc_pre(clocks) # <<ctl.us_pre, ctl.ms_pre>>
    /\ call.width = 32
    /\ Len(issued) = 3
    /\ issued[3][1] = ms_pre_of(passed.clocks)

\* TimerExt::delay has run to its end.
DelayDone == pc \in {"loop_sub", "ret"}

\* C9: one bounded delay with prescaler p and duration d writes the
\* prescaler register exactly once, with p mod 0x10000, before the first
\* countdown, and runs exactly (p >> 16) + 1 countdowns, each loaded with d:
\* ((p >> 16) + 1) * d counter ticks; one countdown for p < 0x10000.
C9_BoundedDelay ==
    DelayDone =>
        LET p == frame.prescaler
            d == frame.time
            reps == (p \div 65536) + 1
        IN /\ ops[1] = <<"psc.write", p % 65536>>
           /\ CountOps(ops, "psc.write") = 1
           /\ tim.psc = p % 65536
           /\ CountOps(ops, "cnt.write") = reps
           /\ CountOps(ops, "cr1.cen.set") = reps
           /\ CountOps(ops, "sr.uif.seen") = reps
           /\ \A k \in 1..Len(ops) :
                 ops[k][1] = "cnt.write" => ops[k][2] = d
           /\ ticks = reps * d
           /\ (p < 65536 => CountOps(ops, "cnt.write") = 1)

\* The register operations of one repetition, in the order of the claim.
RepetitionOps ==
    <<"sr.write.uif", "cnt.write", "cr1.cen.set", "sr.uif.seen",
      "cr1.cen.clear">>

\* The k-th register operation of a bounded delay.
ExpectedOp(k) ==
    IF k = 1 THEN "psc.write" ELSE RepetitionOps[((k - 2) % 5) + 1]

InCall ==
    pc \in {"single", "loop", "loop_sub", "delay_entry", "for", "clear_uif",
            "load_cnt", "start", "poll", "stop", "ret"}

\* The counter ticks of the countdowns the call has started, when each of
\* them has been run down to zero.
RECURSIVE TicksStarted(_)
TicksStarted(s) ==
    IF s = <<>> THEN 0
    ELSE ((Head(s)[1] \div 65536) + 1) * Head(s)[2] + TicksStarted(Tail(s))

\* C5: a call returns if and only if the hardware raises the flag in every
\* countdown the call starts.  "Only if": when the call returns, every
\* countdown it started has been run down to zero by the hardware, so a
\* countdown in which the flag is never raised keeps the call spinning.
C5_ReturnsOnlyIfExpired ==
    AtReturn => callTicks = TicksStarted(issued)

\* The part of C5 the code satisfies.  "If": when every started countdown
\* raises the flag, every call returns.  No timeout: while the flag reads 0
\* the call stays in the busy-wait and accesses no other register, and the
\* busy-wait is left only when the flag reads 1.
C5_ReturnsWhenFlagSet ==
    /\ InCall ~> (pc = "idle")
    /\ [][(pc = "poll" /\ ~tim.uif) => (pc' = "poll" /\ ops' = ops)]_vars
    /\ [](pc = "stop" => tim.uif)

\* C11: the update flag is clear once a repetition has written the status
\* register, and the busy-wait of a repetition is left only after the
\* countdown started in that repetition has reached zero: a flag an earlier
\* countdown left set never ends a later busy-wait early.
C11_OwnCountdown ==
    /\ (call.unit # "none" /\ pc = "load_cnt") => ~tim.uif
    /\ (call.unit # "none" /\ pc = "stop") => tim.done

\* The register operations of enable(), in the order of the claim.
EnableOps ==
    <<<<"apb2enr.set", TimBit>>, <<"apb2rstr.set", TimBit>>,
      <<"apb2rstr.clear", TimBit>>, <<"cr1.dir.set", 1>>>>

\* init() is executing enable() or is about to compute the prescalers.
InInit ==
    pc \in {"enable_enr", "enable_rst_set", "enable_rst_clear", "enable_dir",
            "init_calc"}

\* free() has asserted the reset bit and has not returned yet.
InDisable == pc \in {"disable_rst_clear", "disable_enr", "free_ret"}

\* C12: init sets the clock-enable bit, sets the reset bit, clears the
\* reset bit and sets the down-counting direction bit, in this order, and
\* only then computes the prescalers; from init's return until free() the
\* clock-enable bit is set, the reset bit is clear and the direction is
\* down, in particular at the start of every bounded delay.
C12_EnableThenCalc ==
    /\ InInit =>
          /\ Len(ops) <= 4
          /\ \A k \in 1..Len(ops) : ops[k] = EnableOps[k]
          /\ ~ctl.live
    /\ pc = "init_calc" => ops = EnableOps
    /\ (ctl.live /\ ~InDisable) =>
          /\ TimBit \in rcc.apb2enr
          /\ TimBit \notin rcc.apb2rstr
          /\ tim.dir
    /\ pc = "delay_entry" => tim.dir

C12_Witness ==
    /\ pc = "delay_entry"
    /\ Len(issued) = 3
    /\ tim.dir
    /\ TimBit \in rcc.apb2enr
    /\ returned = NoHandle

\* The next step of the program writes or reads a register of the timer.
AtTimerRegister ==
    pc \in {"enable_dir", "delay_entry", "clear_uif", "load_cnt", "start",
            "poll", "stop"}

\* C13: over init, delay_ms / delay_us, free and init again, enable() runs
\* only on a peripheral that is not enabled (first, or after a disable()),
\* disable() only on one that enable() has enabled, and every bounded delay
\* runs between the two: no register of the timer is accessed while its
\* clock is gated off or its reset asserted.
C13_Lifecycle ==
    /\ [](/\ pc = "enable_enr" => (TimBit \notin rcc.apb2enr /\ ~ctl.live)
          /\ pc = "disable_rst_set" => (TimBit \in rcc.apb2enr /\ ctl.live)
          /\ InCall => (ctl.live /\ handle = NoHandle)
          /\ AtTimerRegister =>
                (TimBit \in rcc.apb2enr /\ TimBit \notin rcc.apb2rstr))
    /\ [][(pc # "enable_enr" /\ pc' = "enable_enr") =>
             (passed.t = NoHandle \/ returned # NoHandle)]_vars
    /\ [][(pc # "disable_rst_set" /\ pc' = "disable_rst_set") =>
             (ctl.live /\ returned = NoHandle)]_vars

C13_Witness ==
    /\ pc = "stop"
    /\ ctl.live
    /\ TimBit \in rcc.apb2enr
    /\ Len(issued) = 2
    /\ call.unit = "us"

\* The bits of a shared register that belong to other peripherals.
Others(reg) == reg \ {TimBit}

\* A step of init, free or a delay call (the processor moves on).
ProgramStep == pc' # pc

\* C14: enable() and disable() change only bit 0 of APB2ENR and APB2RSTR,
\* one bit of one register per step: whatever other agents have written to
\* the other bits, at any point of the interleaving, no step of the program
\* alters or loses it.
C14_OnlyOwnBit ==
    [][ProgramStep =>
          /\ Others(rcc'.apb2enr) = Others(rcc.apb2enr)
          /\ Others(rcc'.apb2rstr) = Others(rcc.apb2rstr)
          /\ (rcc'.apb2enr = rcc.apb2enr \/ rcc'.apb2rstr = rcc.apb2rstr)
          /\ (pc = "enable_enr" => rcc'.apb2enr = rcc.apb2enr \cup {TimBit})
          /\ (pc \in {"enable_rst_set", "disable_rst_set"}
                => rcc'.apb2rstr = rcc.apb2rstr \cup {TimBit})
          /\ (pc \in {"enable_rst_clear", "disable_rst_clear"}
                => rcc'.apb2rstr = rcc.apb2rstr \ {TimBit})
          /\ (pc = "disable_enr" => rcc'.apb2enr = rcc.apb2enr \ {TimBit})
          /\ (~(InInit \/ InDisable \/ pc = "disable_rst_set")
                => rcc' = rcc)]_vars

C14_Witness ==
    /\ pc = "enable_rst_clear"
    /\ rcc.apb2enr = {TimBit} \cup OtherBits
    /\ rcc.apb2rstr = {TimBit} \cup OtherBits

\* C15: in the 32-bit delay_ms / delay_us the value left when the loop
\* exits is at most 0xFFFF, so the cast to 16 bits keeps it, and it is 0
\* only for n = 0: for n >= 1, exact multiples of 0xFFFF included, every
\* bounded delay has a duration in 1..0xFFFF and no countdown is loaded
\* with zero.
C15_Remainder ==
    call.width = 32 =>
        /\ frame.last =>
              /\ call.rem <= MaxCounter
              /\ frame.time = call.rem
              /\ (call.rem = 0 <=> call.n = 0)
        /\ call.n >= 1 =>
              /\ \A j \in 1..Len(issued) : issued[j][2] \in 1..MaxCounter
              /\ \A k \in 1..Len(ops) :
                    ops[k][1] = "cnt.write" => ops[k][2] \in 1..MaxCounter

C15_Witness ==
    /\ AtReturn
    /\ call.width = 32
    /\ call.n = 2 * MaxCounter
    /\ call.rem = MaxCounter
    /\ Len(issued) = 2
    /\ issued[2][2] = MaxCounter

====
